---- MODULE Spec2Model ----
(***************************************************************************)
(* Model of the stream-ingestion core of pi-face:                          *)
(*   - hik_mjpeg_server.py : capture_loop (capture thread), the Flask      *)
(*     handlers /health, /snapshot, /video_feed and main's shutdown flag;  *)
(*   - face_runtime.py     : main's connect / read / freeze loop.          *)
(* The two programs are separate processes; the variable prog says which   *)
(* of them a behaviour runs.                                               *)
(***************************************************************************)
EXTENDS Integers, Sequences, FiniteSets, TLC

-----------------------------------------------------------------------------
(* Bounds of the model *)

\* number of candidate URLs the loops iterate over (_rtsp_urls returns main, sub)
NumUrls == 2
\* distinct image contents the camera can deliver
NumFrames == 2
\* VideoCapture objects a behaviour may construct
MaxHandles == 3
\* concurrent HTTP request handlers (Flask threaded=True)
NumHandlers == 2
\* a blocking call of a probe (open, read, sleep) takes 0 or StepSec seconds
StepSec == 3

-----------------------------------------------------------------------------
(* Program constants *)

OPEN_TIMEOUT_SEC == 6
TEST_FRAMES == 8
MAX_CONSECUTIVE_FAILS == 30

RTSP_OPEN_TIMEOUT_SEC == 6
RTSP_TEST_FRAMES == 8
RTSP_MAX_CONSECUTIVE_FAILS == 30
RTSP_FREEZE_MAX_FRAMES == 30

-----------------------------------------------------------------------------
(* Values *)

\* Python None, for a capture handle / a url
NoCap == 0
NoUrl == 0
\* Python None, for bytes / a frame / a digest (no byte sequence contains -1)
None == <<-1>>

Caps == 1..MaxHandles
Handlers == 1..NumHandlers
Contents == 1..NumFrames

\* the lock owner: 0 free, Worker the capture thread, a handler otherwise
Free == 0
Worker == NumHandlers + 1

urls == [i \in 1..NumUrls |-> i]

\* a decoded image (numpy array): its pixel bytes; <<>> is a zero-size image
Image(c) == <<c, c>>
EmptyImage == <<>>
size(frame) == Len(frame)

\* what cap.read() can return: (False, None), (True, zero-size image), (True, image)
ReadFail == [ok |-> FALSE, frame |-> None]
ReadOutcomes ==
    {ReadFail, [ok |-> TRUE, frame |-> EmptyImage]}
        \cup {[ok |-> TRUE, frame |-> Image(c)] : c \in Contents}

\* the probe's test of one read
GoodProbeRead(r) == r.ok /\ r.frame # None /\ size(r.frame) > 0

\* the connected loops' test of one read
FailedRead(r) == (~r.ok) \/ r.frame = None

\* cv2.imencode(".jpg", frame) on success: SOI marker, image data, EOI marker
imencode(frame) == <<255, 216>> \o frame \o <<255, 217>>

\* buf.tobytes(): the complete byte payload of the encoded buffer
tobytesMut(buf) == SubSeq(buf, 1, Len(buf) - 1)
tobytes(buf) == buf

\* frame_hash: hashlib.md5(frame.tobytes()).hexdigest(), taken as free of
\* collisions: the digest determines the bytes
frame_hash(f) == <<16>> \o tobytes(f)

\* Python truthiness of bytes | None
Truthy(data) == data # None /\ Len(data) > 0

Min(a, b) == IF a < b THEN a ELSE b

-----------------------------------------------------------------------------
VARIABLES
    prog,               \* "server" or "runtime": which program runs
    \* codec handles (cv2.VideoCapture objects)
    caps_made,          \* how many VideoCapture objects were constructed
    cap_releases,       \* cap_releases[h]: number of release() calls on h
    release_raised,     \* the latest release() call raised (until handled)
    \* hik_mjpeg_server globals
    frame_lock, latest_jpeg, stop_flag,
    \* capture_loop locals
    c_pc, working_cap, working_url, consecutive_fails, url_i,
    p_cap, p_ok_count, p_elapsed,       \* _try_open_stream / try_open_stream locals
    p_good, p_run,      \* history: good reads of this probe, current run of good reads
    frame, buf,
    \* HTTP handlers
    h_pc, h_kind, h_data, h_has_frame,
    \* face_runtime.main locals
    fr_pc, cap, fr_working_url, fr_consecutive_fails, last_hash, freeze_count,
    \* history
    same_run,           \* length of the current run of successful reads of
                        \* face_runtime with one fingerprint (run_hash)
    run_hash,
    published,          \* set of payloads of completed publishes
    last_published,     \* payload of the latest completed publish, or None
    tried               \* urls probed so far in the current sweep

capVars == <<caps_made, cap_releases, release_raised>>
globalVars == <<frame_lock, latest_jpeg, stop_flag>>
probeVars == <<p_cap, p_ok_count, p_elapsed, p_good, p_run>>
loopVars == <<c_pc, working_cap, working_url, consecutive_fails, url_i, frame, buf>>
handlerVars == <<h_pc, h_kind, h_data, h_has_frame>>
histVars == <<published, last_published, tried>>
runtimeVars == <<fr_pc, cap, fr_working_url, fr_consecutive_fails, last_hash,
                 freeze_count, same_run, run_hash>>
\* what only hik_mjpeg_server has (url_i, tried and the probe's locals belong to
\* the sweep of whichever program runs)
serverVars == <<globalVars, c_pc, working_cap, working_url, consecutive_fails,
                frame, buf, handlerVars, published, last_published>>
vars == <<prog, capVars, globalVars, probeVars, loopVars, handlerVars, histVars,
          runtimeVars>>

-----------------------------------------------------------------------------
(* cv2.VideoCapture *)

\* cap.release(): one more release call on h, which returns or raises
ReleaseMut(h, raised) ==
    /\ UNCHANGED cap_releases
    /\ release_raised' = raised
Release(h, raised) ==
    /\ cap_releases' = [cap_releases EXCEPT ![h] = @ + 1]
    /\ release_raised' = raised

\* cv2.VideoCapture(url, cv2.CAP_FFMPEG): a new object
Construct(h) == caps_made' = h

\* time.time() - start after a call that took dt seconds (saturating at limit)
Elapse(dt, limit) == Min(p_elapsed + dt, limit)

-----------------------------------------------------------------------------
(* _try_open_stream / try_open_stream: the counting of one loop iteration *)

\* ok_count after one read r
ProbeOkCountMut(r) == IF GoodProbeRead(r) THEN p_ok_count + 1 ELSE 0
ProbeOkCount(r) == IF GoodProbeRead(r) THEN p_ok_count + 1 ELSE p_ok_count

\* the probe returns cap after read r
ProbePasses(r, need) == GoodProbeRead(r) /\ ProbeOkCount(r) >= need

\* history of the reads of the running probe
ProbeHistory(r) ==
    /\ p_good' = IF GoodProbeRead(r) THEN p_good + 1 ELSE p_good
    /\ p_run' = IF GoodProbeRead(r) THEN p_run + 1 ELSE 0

\* the locals of a probe that is not running
ProbeIdle ==
    /\ p_cap' = NoCap
    /\ p_elapsed' = 0

\* start = time.time(); cap = VideoCapture(url); ok_count = 0
ProbeStart(h, dt, limit) ==
    /\ p_cap' = h
    /\ p_ok_count' = 0
    /\ p_good' = 0
    /\ p_run' = 0
    /\ p_elapsed' = Min(dt, limit)

Durations == {0, StepSec}

\* for url in urls: the index of the candidate a sweep begins with
FirstIndexMut == 1 + 1
FirstIndex == 1

-----------------------------------------------------------------------------
(* hik_mjpeg_server.capture_loop *)

\* while not stop_flag: ... if working_cap is None: working_url = None; fails = 0
C_Loop ==
    /\ prog = "server" /\ UNCHANGED <<prog, runtimeVars>>
    /\ c_pc = "loop"
    /\ IF stop_flag
         THEN /\ c_pc' = "returned"
              /\ UNCHANGED <<working_url, consecutive_fails, url_i, tried>>
         ELSE IF working_cap = NoCap
         THEN /\ working_url' = NoUrl
              /\ consecutive_fails' = 0
              /\ url_i' = FirstIndex
              /\ tried' = <<>>
              /\ c_pc' = "for"
         ELSE /\ c_pc' = "read"
              /\ UNCHANGED <<working_url, consecutive_fails, url_i, tried>>
    /\ UNCHANGED <<capVars, globalVars, probeVars, working_cap, frame, buf,
                   handlerVars, published, last_published>>

\* for url in urls: if stop_flag: break
C_For ==
    /\ prog = "server" /\ UNCHANGED <<prog, runtimeVars>>
    /\ c_pc = "for"
    /\ c_pc' = IF url_i > NumUrls \/ stop_flag THEN "after_for" ELSE "open"
    /\ UNCHANGED <<capVars, globalVars, probeVars, working_cap, working_url,
                   consecutive_fails, url_i, frame, buf, handlerVars, histVars>>

\* _try_open_stream(url): cap = cv2.VideoCapture(url); if not cap.isOpened(): release
C_Open ==
    /\ prog = "server" /\ UNCHANGED <<prog, runtimeVars>>
    /\ c_pc = "open"
    /\ caps_made < MaxHandles
    /\ \E opened \in BOOLEAN, dt \in Durations, raised \in BOOLEAN :
        LET h == caps_made + 1 IN
        /\ Construct(h)
        /\ tried' = Append(tried, urls[url_i])
        /\ IF opened
             THEN /\ raised = FALSE
                  /\ ProbeStart(h, dt, OPEN_TIMEOUT_SEC)
                  /\ c_pc' = "probe"
                  /\ UNCHANGED <<cap_releases, release_raised, url_i>>
             ELSE /\ Release(h, raised)
                  /\ ProbeStart(NoCap, 0, OPEN_TIMEOUT_SEC)
                  /\ IF raised
                       THEN c_pc' = "dead" /\ UNCHANGED url_i
                       ELSE c_pc' = "for" /\ url_i' = url_i + 1
    /\ UNCHANGED <<globalVars, working_cap, working_url, consecutive_fails,
                   frame, buf, handlerVars, published, last_published>>

\* one iteration of the probe's while loop, then the caller's "if cap is not None"
C_ProbeRead ==
    /\ prog = "server" /\ UNCHANGED <<prog, runtimeVars>>
    /\ c_pc = "probe"
    /\ p_elapsed < OPEN_TIMEOUT_SEC
    /\ \E r \in ReadOutcomes, dt \in Durations :
        /\ p_ok_count' = ProbeOkCount(r)
        /\ ProbeHistory(r)
        /\ IF ProbePasses(r, TEST_FRAMES)
             THEN /\ working_cap' = p_cap
                  /\ working_url' = urls[url_i]
                  /\ c_pc' = "after_for"
                  /\ p_cap' = NoCap
                  /\ UNCHANGED p_elapsed
             ELSE /\ p_elapsed' = Elapse(dt, OPEN_TIMEOUT_SEC)
                  /\ UNCHANGED <<working_cap, working_url, c_pc, p_cap>>
    /\ UNCHANGED <<capVars, globalVars, consecutive_fails, url_i, frame, buf,
                   handlerVars, histVars>>

\* the probe's timeout: cap.release(); return None; the sweep goes on
C_ProbeTimeout ==
    /\ prog = "server" /\ UNCHANGED <<prog, runtimeVars>>
    /\ c_pc = "probe"
    /\ p_elapsed >= OPEN_TIMEOUT_SEC
    /\ ProbeIdle
    /\ \E raised \in BOOLEAN :
        /\ Release(p_cap, raised)
        /\ IF raised
             THEN c_pc' = "dead" /\ UNCHANGED url_i
             ELSE c_pc' = "for" /\ url_i' = url_i + 1
    /\ UNCHANGED <<caps_made, globalVars, p_ok_count, p_good, p_run,
                   working_cap, working_url, consecutive_fails, frame, buf,
                   handlerVars, histVars>>

\* if working_cap is None: log, sleep(RETRY_ALL_URL_SLEEP_SEC), continue
C_AfterFor ==
    /\ prog = "server" /\ UNCHANGED <<prog, runtimeVars>>
    /\ c_pc = "after_for"
    /\ c_pc' = IF working_cap = NoCap THEN "retry_sleep" ELSE "read"
    /\ ProbeStart(NoCap, 0, OPEN_TIMEOUT_SEC)
    /\ UNCHANGED <<capVars, globalVars, working_cap, working_url,
                   consecutive_fails, url_i, frame, buf, handlerVars, histVars>>

\* time.sleep(RETRY_ALL_URL_SLEEP_SEC) / time.sleep(READ_FAIL_SLEEP_SEC) is over
C_Wake ==
    /\ prog = "server" /\ UNCHANGED <<prog, runtimeVars>>
    /\ c_pc \in {"retry_sleep", "fail_sleep"}
    /\ c_pc' = "loop"
    /\ release_raised' = FALSE
    /\ UNCHANGED <<caps_made, cap_releases, globalVars, probeVars, working_cap,
                   working_url, consecutive_fails, url_i, frame, buf, handlerVars,
                   histVars>>

\* consecutive_fails >= MAX_CONSECUTIVE_FAILS
FailThresholdMut(n) == n > MAX_CONSECUTIVE_FAILS
FailThreshold(n) == n >= MAX_CONSECUTIVE_FAILS

\* ok, frame = working_cap.read(); the failure branch, or consecutive_fails = 0
C_Read ==
    /\ prog = "server" /\ UNCHANGED <<prog, runtimeVars>>
    /\ c_pc = "read"
    /\ \E r \in ReadOutcomes, raised \in BOOLEAN :
        IF FailedRead(r)
        THEN /\ IF FailThreshold(consecutive_fails + 1)
                  THEN /\ Release(working_cap, raised)
                       /\ working_cap' = NoCap
                       /\ working_url' = NoUrl
                       /\ consecutive_fails' = 0
                  ELSE /\ raised = FALSE
                       /\ consecutive_fails' = consecutive_fails + 1
                       /\ UNCHANGED <<working_cap, working_url, cap_releases,
                                      release_raised>>
             /\ c_pc' = "fail_sleep"
             /\ UNCHANGED frame
        ELSE /\ raised = FALSE
             /\ consecutive_fails' = 0
             /\ frame' = r.frame
             /\ c_pc' = "encode"
             /\ UNCHANGED <<working_cap, working_url, cap_releases, release_raised>>
    /\ UNCHANGED <<caps_made, globalVars, probeVars, url_i, buf,
                   handlerVars, histVars>>

\* ok2, buf = cv2.imencode(".jpg", frame); if not ok2: continue
\* (a zero-size image is refused: ok2 is false or cv2.error is raised)
C_Encode ==
    /\ prog = "server" /\ UNCHANGED <<prog, runtimeVars>>
    /\ c_pc = "encode"
    /\ \E ok2 \in BOOLEAN, raised \in BOOLEAN :
        /\ raised => size(frame) = 0
        /\ ok2 => size(frame) > 0
        /\ ok2 => ~raised
        /\ IF raised THEN c_pc' = "dead" /\ buf' = None
           ELSE IF ok2 THEN c_pc' = "lock" /\ buf' = imencode(frame)
           ELSE c_pc' = "loop" /\ buf' = None
    /\ frame' = None
    /\ UNCHANGED <<capVars, globalVars, probeVars, working_cap, working_url,
                   consecutive_fails, url_i, handlerVars, histVars>>

\* with frame_lock: (acquire)
C_Acquire ==
    /\ prog = "server" /\ UNCHANGED <<prog, runtimeVars>>
    /\ c_pc = "lock"
    /\ frame_lock = Free
    /\ frame_lock' = Worker
    /\ c_pc' = "publish"
    /\ UNCHANGED <<capVars, latest_jpeg, stop_flag, probeVars, working_cap,
                   working_url, consecutive_fails, url_i, frame, buf,
                   handlerVars, histVars>>

\* latest_jpeg = <new>: the slot after the assignment
StoreMut(old, new) == IF old = None THEN new ELSE old
Store(old, new) == new

\* latest_jpeg = buf.tobytes(), and the lock is released
C_Publish ==
    /\ prog = "server" /\ UNCHANGED <<prog, runtimeVars>>
    /\ c_pc = "publish"
    /\ frame_lock = Worker
    /\ latest_jpeg' = Store(latest_jpeg, tobytes(buf))
    /\ frame_lock' = Free
    /\ published' = published \cup {buf}
    /\ last_published' = buf
    /\ buf' = None
    /\ c_pc' = "loop"
    /\ UNCHANGED <<capVars, stop_flag, probeVars, working_cap, working_url,
                   consecutive_fails, url_i, frame, handlerVars, tried>>

\* hik_mjpeg_server.main: finally: stop_flag = True
SetStop ==
    /\ prog = "server" /\ UNCHANGED <<prog, runtimeVars>>
    /\ ~stop_flag
    /\ stop_flag' = TRUE
    /\ UNCHANGED <<capVars, frame_lock, latest_jpeg, probeVars, loopVars,
                   handlerVars, histVars>>

-----------------------------------------------------------------------------
(* hik_mjpeg_server: the HTTP handlers *)

Kinds == {"health", "snapshot", "video_feed"}

\* has_frame = latest_jpeg is not None
HasFrameMut(slot) == TRUE
HasFrame(slot) == slot # None

\* data = latest_jpeg
ReadSlotMut(slot) == IF slot = None THEN slot ELSE SubSeq(slot, 1, 2)
ReadSlot(slot) == slot

\* jsonify({"ok": True, "has_frame": has_frame})
HealthResponse(has_frame) ==
    [status |-> 200, ok |-> TRUE, has_frame |-> has_frame, body |-> None]

\* if not data: Response("no frame", status=503) else Response(data, image/jpeg)
SnapshotResponseMut(data) ==
    [status |-> 200, ok |-> TRUE, has_frame |-> FALSE, body |-> data]
SnapshotResponse(data) ==
    IF ~Truthy(data)
    THEN [status |-> 503, ok |-> FALSE, has_frame |-> FALSE, body |-> None]
    ELSE [status |-> 200, ok |-> TRUE, has_frame |-> FALSE, body |-> data]

\* the four chunks of one part: boundary, content type, content length, data
Part(data) == <<45, 45>> \o <<Len(data)>> \o data \o <<13, 10>>

\* gen(): if not data: sleep and continue, else yield the part
FeedBranchMut(data) == "vf_yield"
FeedBranchEndMut(data) == IF ~Truthy(data) THEN "vf_done" ELSE "vf_yield"
FeedBranch(data) == IF ~Truthy(data) THEN "vf_poll" ELSE "vf_yield"

\* a request arrives and Flask runs its handler in a thread of its own
\* (the lowest free handler of the model takes it)
H_Start(h) ==
    /\ prog = "server" /\ UNCHANGED <<prog, runtimeVars>>
    /\ h_pc[h] \in {"idle", "vf_closed"}
    /\ \A g \in Handlers : g < h => h_pc[g] \notin {"idle", "vf_closed"}
    /\ ~stop_flag
    /\ \E k \in Kinds :
        /\ h_kind' = [h_kind EXCEPT ![h] = k]
        /\ h_pc' = [h_pc EXCEPT ![h] = IF k = "video_feed" THEN "vf_test" ELSE "lock"]
    /\ UNCHANGED <<capVars, globalVars, probeVars, loopVars, h_data, h_has_frame,
                   histVars>>

\* with frame_lock: (acquire)
H_Acquire(h) ==
    /\ prog = "server" /\ UNCHANGED <<prog, runtimeVars>>
    /\ h_pc[h] = "lock"
    /\ frame_lock = Free
    /\ frame_lock' = h
    /\ h_pc' = [h_pc EXCEPT ![h] = "locked"]
    /\ UNCHANGED <<capVars, latest_jpeg, stop_flag, probeVars, loopVars, h_kind,
                   h_data, h_has_frame, histVars>>

\* the body of the with block, and the lock is released
H_ReadMut(h) ==
    /\ prog = "server" /\ UNCHANGED <<prog, runtimeVars>>
    /\ h_pc[h] = "locked"
    /\ frame_lock = h
    /\ UNCHANGED frame_lock
    /\ IF h_kind[h] = "health"
         THEN /\ h_has_frame' = [h_has_frame EXCEPT ![h] = HasFrame(latest_jpeg)]
              /\ h_pc' = [h_pc EXCEPT ![h] = "respond"]
              /\ UNCHANGED h_data
         ELSE /\ h_data' = [h_data EXCEPT ![h] = ReadSlot(latest_jpeg)]
              /\ h_pc' = [h_pc EXCEPT ![h] =
                     IF h_kind[h] = "snapshot" THEN "respond"
                     ELSE FeedBranch(ReadSlot(latest_jpeg))]
              /\ UNCHANGED h_has_frame
    /\ UNCHANGED <<capVars, latest_jpeg, stop_flag, probeVars, loopVars, h_kind,
                   histVars>>
H_Read(h) ==
    /\ prog = "server" /\ UNCHANGED <<prog, runtimeVars>>
    /\ h_pc[h] = "locked"
    /\ frame_lock = h
    /\ frame_lock' = Free
    /\ IF h_kind[h] = "health"
         THEN /\ h_has_frame' = [h_has_frame EXCEPT ![h] = HasFrame(latest_jpeg)]
              /\ h_pc' = [h_pc EXCEPT ![h] = "respond"]
              /\ UNCHANGED h_data
         ELSE /\ h_data' = [h_data EXCEPT ![h] = ReadSlot(latest_jpeg)]
              /\ h_pc' = [h_pc EXCEPT ![h] =
                     IF h_kind[h] = "snapshot" THEN "respond"
                     ELSE FeedBranch(ReadSlot(latest_jpeg))]
              /\ UNCHANGED h_has_frame
    /\ UNCHANGED <<capVars, latest_jpeg, stop_flag, probeVars, loopVars, h_kind,
                   histVars>>

\* what the handler of /health or /snapshot is about to return
Response(h) ==
    IF h_kind[h] = "health" THEN HealthResponse(h_has_frame[h])
    ELSE SnapshotResponse(h_data[h])

\* return jsonify(...) / return Response(...)
H_Respond(h) ==
    /\ prog = "server" /\ UNCHANGED <<prog, runtimeVars>>
    /\ h_pc[h] = "respond"
    /\ h_pc' = [h_pc EXCEPT ![h] = "idle"]
    /\ h_kind' = [h_kind EXCEPT ![h] = "none"]
    /\ h_data' = [h_data EXCEPT ![h] = None]
    /\ h_has_frame' = [h_has_frame EXCEPT ![h] = FALSE]
    /\ UNCHANGED <<capVars, globalVars, probeVars, loopVars, histVars>>

\* gen(): while not stop_flag
V_Test(h) ==
    /\ prog = "server" /\ UNCHANGED <<prog, runtimeVars>>
    /\ h_pc[h] = "vf_test"
    /\ h_pc' = [h_pc EXCEPT ![h] = IF stop_flag THEN "vf_done" ELSE "lock"]
    /\ UNCHANGED <<capVars, globalVars, probeVars, loopVars, h_kind, h_data,
                   h_has_frame, histVars>>

\* gen(): time.sleep(0.05); continue  /  time.sleep(0.03) after a part
V_Wake(h) ==
    /\ prog = "server" /\ UNCHANGED <<prog, runtimeVars>>
    /\ h_pc[h] \in {"vf_poll", "vf_pace"}
    /\ h_pc' = [h_pc EXCEPT ![h] = "vf_test"]
    /\ h_data' = [h_data EXCEPT ![h] = None]
    /\ UNCHANGED <<capVars, globalVars, probeVars, loopVars, h_kind, h_has_frame,
                   histVars>>

\* gen(): the yields of one part; the consumer takes it, or has gone and the
\* generator is closed at the yield (GeneratorExit)
V_Yield(h) ==
    /\ prog = "server" /\ UNCHANGED <<prog, runtimeVars>>
    /\ h_pc[h] = "vf_yield"
    /\ \E gone \in BOOLEAN :
        /\ h_pc' = [h_pc EXCEPT ![h] = IF gone THEN "vf_closed" ELSE "vf_pace"]
        /\ h_data' = [h_data EXCEPT ![h] = IF gone THEN None ELSE @]
    /\ UNCHANGED <<capVars, globalVars, probeVars, loopVars, h_kind,
                   h_has_frame, histVars>>

-----------------------------------------------------------------------------
(* face_runtime.main *)

\* consecutive_fails >= RTSP_MAX_CONSECUTIVE_FAILS
RtspFailThresholdMut(n) == n > RTSP_MAX_CONSECUTIVE_FAILS
RtspFailThreshold(n) == n >= RTSP_MAX_CONSECUTIVE_FAILS

\* freeze_count >= RTSP_FREEZE_MAX_FRAMES
FreezeThresholdMut(n) == n >= RTSP_FREEZE_MAX_FRAMES - 1
FreezeThreshold(n) == n >= RTSP_FREEZE_MAX_FRAMES

\* while True: if cap is None: for url in urls
R_Loop ==
    /\ prog = "runtime" /\ UNCHANGED <<prog, serverVars>>
    /\ fr_pc = "loop"
    /\ IF cap = NoCap
         THEN fr_pc' = "for" /\ url_i' = FirstIndex /\ tried' = <<>>
         ELSE fr_pc' = "read" /\ UNCHANGED <<url_i, tried>>
    /\ UNCHANGED <<capVars, probeVars, cap, fr_working_url, fr_consecutive_fails,
                   last_hash, freeze_count, same_run, run_hash>>

\* for url in urls
R_For ==
    /\ prog = "runtime" /\ UNCHANGED <<prog, serverVars>>
    /\ fr_pc = "for"
    /\ fr_pc' = IF url_i > NumUrls THEN "after_for" ELSE "open"
    /\ UNCHANGED <<capVars, probeVars, url_i, tried, cap, fr_working_url,
                   fr_consecutive_fails, last_hash, freeze_count, same_run, run_hash>>

\* try_open_stream(url): cap = cv2.VideoCapture(url); if not cap.isOpened(): release
\* (a release that raises leaves main's loop through "except Exception")
R_Open ==
    /\ prog = "runtime" /\ UNCHANGED <<prog, serverVars>>
    /\ fr_pc = "open"
    /\ caps_made < MaxHandles
    /\ \E opened \in BOOLEAN, dt \in Durations, raised \in BOOLEAN :
        LET h == caps_made + 1 IN
        /\ Construct(h)
        /\ tried' = Append(tried, urls[url_i])
        /\ IF opened
             THEN /\ raised = FALSE
                  /\ ProbeStart(h, dt, RTSP_OPEN_TIMEOUT_SEC)
                  /\ fr_pc' = "probe"
                  /\ UNCHANGED <<cap_releases, release_raised, url_i>>
             ELSE /\ Release(h, raised)
                  /\ ProbeStart(NoCap, 0, RTSP_OPEN_TIMEOUT_SEC)
                  /\ IF raised
                       THEN fr_pc' = "finally" /\ UNCHANGED url_i
                       ELSE fr_pc' = "for" /\ url_i' = url_i + 1
    /\ UNCHANGED <<cap, fr_working_url, fr_consecutive_fails, last_hash,
                   freeze_count, same_run, run_hash>>

\* one iteration of the probe's while loop, then main's "if cap is not None"
R_ProbeRead ==
    /\ prog = "runtime" /\ UNCHANGED <<prog, serverVars>>
    /\ fr_pc = "probe"
    /\ p_elapsed < RTSP_OPEN_TIMEOUT_SEC
    /\ \E r \in ReadOutcomes, dt \in Durations :
        /\ p_ok_count' = ProbeOkCount(r)
        /\ ProbeHistory(r)
        /\ IF ProbePasses(r, RTSP_TEST_FRAMES)
             THEN /\ cap' = p_cap
                  /\ fr_working_url' = urls[url_i]
                  /\ fr_pc' = "after_for"
                  /\ p_cap' = NoCap
                  /\ UNCHANGED p_elapsed
             ELSE /\ p_elapsed' = Elapse(dt, RTSP_OPEN_TIMEOUT_SEC)
                  /\ UNCHANGED <<cap, fr_working_url, fr_pc, p_cap>>
    /\ UNCHANGED <<capVars, url_i, tried, fr_consecutive_fails, last_hash,
                   freeze_count, same_run, run_hash>>

\* the probe's timeout: cap.release(); return None; the sweep goes on
R_ProbeTimeout ==
    /\ prog = "runtime" /\ UNCHANGED <<prog, serverVars>>
    /\ fr_pc = "probe"
    /\ p_elapsed >= RTSP_OPEN_TIMEOUT_SEC
    /\ ProbeIdle
    /\ \E raised \in BOOLEAN :
        /\ Release(p_cap, raised)
        /\ IF raised
             THEN fr_pc' = "finally" /\ UNCHANGED url_i
             ELSE fr_pc' = "for" /\ url_i' = url_i + 1
    /\ UNCHANGED <<caps_made, p_ok_count, p_good, p_run, tried, cap, fr_working_url,
                   fr_consecutive_fails, last_hash, freeze_count, same_run, run_hash>>

\* if cap is None: log, time.sleep(1), continue
R_AfterFor ==
    /\ prog = "runtime" /\ UNCHANGED <<prog, serverVars>>
    /\ fr_pc = "after_for"
    /\ fr_pc' = IF cap = NoCap THEN "retry_sleep" ELSE "read"
    /\ ProbeStart(NoCap, 0, RTSP_OPEN_TIMEOUT_SEC)
    /\ UNCHANGED <<capVars, url_i, tried, cap, fr_working_url, fr_consecutive_fails,
                   last_hash, freeze_count, same_run, run_hash>>

\* time.sleep(1) / time.sleep(RTSP_READ_FAIL_SLEEP_SEC) is over; continue
R_Wake ==
    /\ prog = "runtime" /\ UNCHANGED <<prog, serverVars>>
    /\ fr_pc \in {"retry_sleep", "fail_sleep"}
    /\ fr_pc' = "loop"
    /\ UNCHANGED <<capVars, probeVars, url_i, tried, cap, fr_working_url,
                   fr_consecutive_fails, last_hash, freeze_count, same_run, run_hash>>

\* ok, frame = cap.read(): the failure branch up to the threshold test, or
\* consecutive_fails = 0 and the freeze detection up to its threshold test
R_Read ==
    /\ prog = "runtime" /\ UNCHANGED <<prog, serverVars>>
    /\ fr_pc = "read"
    /\ \E r \in ReadOutcomes :
        IF FailedRead(r)
        THEN /\ fr_consecutive_fails' = fr_consecutive_fails + 1
             /\ fr_pc' = IF RtspFailThreshold(fr_consecutive_fails + 1)
                          THEN "release_fail" ELSE "fail_sleep"
             /\ UNCHANGED <<last_hash, freeze_count, same_run, run_hash>>
        ELSE LET h == frame_hash(r.frame) IN
             /\ fr_consecutive_fails' = 0
             /\ IF h = last_hash
                  THEN /\ freeze_count' = freeze_count + 1
                       /\ fr_pc' = IF FreezeThreshold(freeze_count + 1)
                                    THEN "release_freeze" ELSE "detect"
                       /\ UNCHANGED last_hash
                  ELSE /\ freeze_count' = 0
                       /\ last_hash' = h
                       /\ fr_pc' = "detect"
             /\ same_run' = IF h = run_hash THEN same_run + 1 ELSE 1
             /\ run_hash' = h
    /\ UNCHANGED <<capVars, probeVars, url_i, tried, cap, fr_working_url>>

\* cap.release() of the failure branch / of the freeze branch; when it raises,
\* "except Exception" logs and the finally block runs
R_Release ==
    /\ prog = "runtime" /\ UNCHANGED <<prog, serverVars>>
    /\ fr_pc \in {"release_fail", "release_freeze"}
    /\ \E raised \in BOOLEAN :
        /\ Release(cap, raised)
        /\ fr_pc' = IF raised THEN "finally"
                     ELSE IF fr_pc = "release_fail" THEN "clear_fail"
                     ELSE "clear_freeze"
    /\ UNCHANGED <<caps_made, probeVars, url_i, tried, cap, fr_working_url,
                   fr_consecutive_fails, last_hash, freeze_count, same_run, run_hash>>

\* cap = None; consecutive_fails = 0; sleep   /   cap = None; freeze_count = 0;
\* last_hash = None; continue
R_Clear ==
    /\ prog = "runtime" /\ UNCHANGED <<prog, serverVars>>
    /\ fr_pc \in {"clear_fail", "clear_freeze"}
    /\ cap' = NoCap
    /\ IF fr_pc = "clear_fail"
         THEN /\ fr_consecutive_fails' = 0
              /\ fr_pc' = "fail_sleep"
              /\ UNCHANGED <<last_hash, freeze_count, same_run, run_hash>>
         ELSE /\ freeze_count' = 0
              /\ last_hash' = None
              /\ same_run' = 0
              /\ run_hash' = None
              /\ fr_pc' = "loop"
              /\ UNCHANGED fr_consecutive_fails
    /\ UNCHANGED <<capVars, probeVars, url_i, tried, fr_working_url>>

\* face detection, feature extraction, search and logging of one frame; an
\* exception of any of them is caught by "except Exception"
R_Detect ==
    /\ prog = "runtime" /\ UNCHANGED <<prog, serverVars>>
    /\ fr_pc = "detect"
    /\ \E raised \in BOOLEAN : fr_pc' = IF raised THEN "finally" ELSE "loop"
    /\ UNCHANGED <<capVars, probeVars, url_i, tried, cap, fr_working_url,
                   fr_consecutive_fails, last_hash, freeze_count, same_run, run_hash>>

\* KeyboardInterrupt anywhere in the try block: "except KeyboardInterrupt"
R_Interrupt ==
    /\ prog = "runtime" /\ UNCHANGED <<prog, serverVars>>
    /\ fr_pc \notin {"finally", "stopped"}
    /\ fr_pc' = "finally"
    /\ UNCHANGED <<capVars, probeVars, url_i, tried, cap, fr_working_url,
                   fr_consecutive_fails, last_hash, freeze_count, same_run, run_hash>>

\* finally: if cap is not None: cap.release()
R_Finally ==
    /\ prog = "runtime" /\ UNCHANGED <<prog, serverVars>>
    /\ fr_pc = "finally"
    /\ fr_pc' = "stopped"
    /\ IF cap # NoCap
         THEN \E raised \in BOOLEAN : Release(cap, raised)
         ELSE UNCHANGED <<cap_releases, release_raised>>
    /\ UNCHANGED <<caps_made, probeVars, url_i, tried, cap, fr_working_url,
                   fr_consecutive_fails, last_hash, freeze_count, same_run, run_hash>>

-----------------------------------------------------------------------------
(* The programs *)

InitCommon ==
    /\ caps_made = 0
    /\ cap_releases = [h \in Caps |-> 0]
    /\ release_raised = FALSE
    /\ frame_lock = Free
    /\ latest_jpeg = None
    /\ stop_flag = FALSE
    /\ c_pc = "loop"
    /\ working_cap = NoCap
    /\ working_url = NoUrl
    /\ consecutive_fails = 0
    /\ url_i = 1
    /\ p_cap = NoCap /\ p_ok_count = 0 /\ p_elapsed = 0 /\ p_good = 0 /\ p_run = 0
    /\ frame = None
    /\ buf = None
    /\ h_pc = [h \in Handlers |-> "idle"]
    /\ h_kind = [h \in Handlers |-> "none"]
    /\ h_data = [h \in Handlers |-> None]
    /\ h_has_frame = [h \in Handlers |-> FALSE]
    /\ published = {}
    /\ last_published = None
    /\ tried = <<>>
    /\ fr_pc = "loop"
    /\ cap = NoCap
    /\ fr_working_url = NoUrl
    /\ fr_consecutive_fails = 0
    /\ last_hash = None
    /\ freeze_count = 0
    /\ same_run = 0
    /\ run_hash = None

\* hik_mjpeg_server.main: the capture thread is started, then app.run serves
Init ==
    /\ prog = "server"
    /\ InitCommon

CaptureLoop ==
    \/ C_Loop
    \/ C_For
    \/ C_Open
    \/ C_ProbeRead
    \/ C_ProbeTimeout
    \/ C_AfterFor
    \/ C_Wake
    \/ C_Read
    \/ C_Encode
    \/ C_Acquire
    \/ C_Publish

Handler(h) ==
    \/ H_Start(h)
    \/ H_Acquire(h)
    \/ H_Read(h)
    \/ H_Respond(h)
    \/ V_Test(h)
    \/ V_Wake(h)
    \/ V_Yield(h)

\* the steps of hik_mjpeg_server: capture thread, main thread, request threads
Server ==
    \/ CaptureLoop
    \/ SetStop
    \/ \E h \in Handlers : Handler(h)

Next == Server

\* the steps of face_runtime.main
Runtime ==
    \/ R_Loop
    \/ R_For
    \/ R_Open
    \/ R_ProbeRead
    \/ R_ProbeTimeout
    \/ R_AfterFor
    \/ R_Wake
    \/ R_Read
    \/ R_Release
    \/ R_Clear
    \/ R_Detect
    \/ R_Interrupt
    \/ R_Finally

\* the capture workers alone: capture_loop with main's shutdown flag and no HTTP
\* request, or face_runtime.main
InitCapture ==
    /\ prog \in {"server", "runtime"}
    /\ InitCommon

NextCapture ==
    \/ CaptureLoop
    \/ SetStop
    \/ Runtime

SpecCapture == InitCapture /\ [][NextCapture]_vars

Spec == Init /\ [][Next]_vars

-----------------------------------------------------------------------------
(* Properties of the frame buffer and the HTTP handlers (under Spec) *)

\* the complete payloads the encoder can produce
Payloads == {imencode(Image(c)) : c \in Contents}

\* handlers that hold a value read from the buffer
HoldsData(h) == h_pc[h] \in {"respond", "vf_poll", "vf_yield", "vf_pace"}
                    /\ h_kind[h] # "health"

\* C1: whatever a handler has read from the buffer is None or the complete
\* payload of a publish that completed earlier, never a part or a mix of
\* payloads, however the reads interleave with the worker's publishes.
C1_NoTornRead ==
    /\ published \subseteq Payloads
    /\ latest_jpeg = None \/ latest_jpeg \in published
    /\ \A h \in Handlers :
          HoldsData(h) => (h_data[h] = None \/ h_data[h] \in published)

\* C1 witness: a handler holds a complete earlier payload while the worker is in
\* the middle of publishing a different one.
C1_Witness ==
    \E h \in Handlers :
        /\ HoldsData(h) /\ h_data[h] \in published
        /\ c_pc = "publish" /\ buf # h_data[h]

\* C2: a read of the buffer (the step that leaves the with block) returns the
\* payload of the latest completed publish, never an older one; so while one
\* publish only has completed all consumers hold the same bytes.
C2_LatestValueWins ==
    [][\A h \in Handlers :
          (h_pc[h] = "locked" /\ h_pc'[h] # "locked")
              => IF h_kind[h] = "health"
                 THEN h_has_frame'[h] = (last_published # None)
                 ELSE h_data'[h] = last_published]_vars

\* C2 witness: after a second, different publish two /video_feed consumers are
\* both about to emit the latest payload.
C2_Witness ==
    /\ Cardinality(published) = 2
    /\ \A h \in Handlers :
          /\ h_kind[h] = "video_feed" /\ h_pc[h] = "vf_yield"
          /\ h_data[h] = last_published

\* C3: while no publish has completed, /health answers has_frame = false,
\* /snapshot answers 503 and no /video_feed generator has emitted or is about
\* to emit a part.
C3_NothingBeforeFirstPublish ==
    published = {} =>
        \A h \in Handlers :
            /\ (h_pc[h] = "respond" /\ h_kind[h] = "health")
                   => Response(h).has_frame = FALSE
            /\ (h_pc[h] = "respond" /\ h_kind[h] = "snapshot")
                   => Response(h).status = 503
            /\ h_pc[h] \notin {"vf_yield", "vf_pace", "vf_closed"}

\* C3 witness: before any publish one handler is about to answer /snapshot and
\* another is a /video_feed generator that polls.
C3_Witness ==
    /\ published = {}
    /\ \E h, g \in Handlers :
          /\ h_pc[h] = "respond" /\ h_kind[h] = "snapshot"
          /\ h_pc[g] = "vf_poll"

\* C4 as claimed: whenever the capture session is not connected, a handler that
\* reads the buffer gets has_frame = false / the 503 answer.
C4_Original ==
    \A h \in Handlers :
        (working_cap = NoCap /\ h_pc[h] = "locked")
            => /\ HasFrame(latest_jpeg) = FALSE
               /\ SnapshotResponse(ReadSlot(latest_jpeg)).status = 503

\* C4 amended: while the capture session is not connected, a handler that reads
\* the buffer gets has_frame = false / the 503 answer exactly when no publish
\* has completed so far; after a release the last published frame is still
\* served.
C4_Amended ==
    \A h \in Handlers :
        (working_cap = NoCap /\ h_pc[h] = "locked")
            => /\ HasFrame(latest_jpeg) = (published # {})
               /\ (SnapshotResponse(ReadSlot(latest_jpeg)).status = 503)
                      = (published = {})
               /\ published # {}
                      => SnapshotResponse(ReadSlot(latest_jpeg)).body = last_published

\* C4 witness: the session was released after a publish and a handler reads.
C4_Witness ==
    /\ working_cap = NoCap /\ published # {}
    /\ \E h \in Handlers : h_pc[h] = "locked" /\ h_kind[h] = "snapshot"

VfRunning == {"vf_test", "lock", "locked", "vf_poll", "vf_yield", "vf_pace"}

\* C10: a /video_feed generator that read an empty buffer sleeps and tests again;
\* it ends only at its loop test with stop_flag set or at a yield whose consumer
\* has gone; a part it emits is followed by the pacing sleep.
C10_FeedEndsOnlyOnStopOrClose ==
    [][\A h \in Handlers : h_kind[h] = "video_feed" =>
          /\ (h_pc[h] = "locked" /\ h_pc'[h] # "locked" /\ ~Truthy(latest_jpeg))
                 => h_pc'[h] = "vf_poll"
          /\ (h_pc[h] = "vf_poll" /\ h_pc'[h] # "vf_poll") => h_pc'[h] = "vf_test"
          /\ (h_pc[h] = "vf_yield" /\ h_pc'[h] # "vf_yield")
                 => h_pc'[h] \in {"vf_pace", "vf_closed"}
          /\ (h_pc[h] = "vf_pace" /\ h_pc'[h] # "vf_pace") => h_pc'[h] = "vf_test"
          /\ (h_pc[h] \in VfRunning /\ h_pc'[h] \notin VfRunning)
                 => \/ h_pc[h] = "vf_test" /\ stop_flag /\ h_pc'[h] = "vf_done"
                    \/ h_pc[h] = "vf_yield" /\ h_pc'[h] = "vf_closed"]_vars

\* C10 witness: a generator sleeps on the empty buffer, not ended, after the
\* capture worker has given up a sweep.
C10_Witness ==
    \E h \in Handlers :
        /\ h_pc[h] = "vf_poll" /\ latest_jpeg = None
        /\ c_pc = "retry_sleep"

-----------------------------------------------------------------------------
(* Properties of the capture loops (under SpecCapture) *)

\* the probe has just returned its handle to the sweep
PassedServer == prog = "server" /\ c_pc = "after_for" /\ working_cap # NoCap
PassedRuntime == prog = "runtime" /\ fr_pc = "after_for" /\ cap # NoCap

SweepOrder ==
    /\ Len(tried) <= NumUrls
    /\ \A i \in 1..Len(tried) : tried[i] = urls[i]

\* C6: a sweep probes the candidates in list order from the first one; a
\* candidate is opened only after all before it failed and while the session
\* holds no handle; the session connects to the candidate whose probe passed,
\* which stays the last one opened in that sweep.
C6_FirstPassingCandidate ==
    /\ SweepOrder
    /\ (prog = "server" /\ c_pc \in {"for", "open"})
           => (Len(tried) = url_i - 1 /\ working_cap = NoCap)
    /\ (prog = "server" /\ c_pc = "probe")
           => (Len(tried) = url_i /\ working_cap = NoCap)
    /\ (prog = "server" /\ working_cap # NoCap)
           => (Len(tried) >= 1 /\ working_url = tried[Len(tried)])
    /\ (prog = "runtime" /\ fr_pc \in {"for", "open"})
           => (Len(tried) = url_i - 1 /\ cap = NoCap)
    /\ (prog = "runtime" /\ fr_pc = "probe")
           => (Len(tried) = url_i /\ cap = NoCap)
    /\ (prog = "runtime" /\ cap # NoCap)
           => (Len(tried) >= 1 /\ fr_working_url = tried[Len(tried)])

\* C6 witness: face_runtime is connected on the second candidate after the first
\* one failed its probe.
C6_Witness ==
    /\ prog = "runtime" /\ fr_pc = "read" /\ cap # NoCap
    /\ tried = <<urls[1], urls[2]>> /\ fr_working_url = urls[2]

\* C7: a failed read below the threshold adds one to the counter and keeps the
\* handle; the failed read that brings the counter to the threshold has the handle
\* released, and the session disconnected with the counter at 0 once release has
\* returned; a successful read sets the counter to 0 and keeps the handle.  (A
\* release that raises in face_runtime.main is the subject of C13.)
C7_FailureThreshold ==
    /\ [](prog = "server" /\ working_cap # NoCap
              => consecutive_fails <= MAX_CONSECUTIVE_FAILS - 1)
    /\ [](prog = "runtime" /\ fr_pc \in {"loop", "read", "fail_sleep", "detect"}
              => fr_consecutive_fails <= RTSP_MAX_CONSECUTIVE_FAILS - 1)
    /\ [][(prog = "server" /\ c_pc = "read" /\ c_pc' # "read") =>
            IF c_pc' = "fail_sleep"
            THEN IF consecutive_fails + 1 < MAX_CONSECUTIVE_FAILS
                 THEN /\ consecutive_fails' = consecutive_fails + 1
                      /\ working_cap' = working_cap
                      /\ cap_releases' = cap_releases
                 ELSE /\ consecutive_fails' = 0
                      /\ working_cap' = NoCap
                      /\ cap_releases' =
                            [cap_releases EXCEPT ![working_cap] = @ + 1]
            ELSE /\ consecutive_fails' = 0
                 /\ working_cap' = working_cap
                 /\ cap_releases' = cap_releases]_vars
    /\ [][(prog = "runtime" /\ fr_pc = "read" /\ fr_pc' \notin {"read", "finally"}) =>
            IF fr_pc' \in {"fail_sleep", "release_fail"}
            THEN /\ fr_consecutive_fails' = fr_consecutive_fails + 1
                 /\ (fr_pc' = "release_fail")
                        = (fr_consecutive_fails' = RTSP_MAX_CONSECUTIVE_FAILS)
                 /\ cap' = cap /\ cap_releases' = cap_releases
            ELSE /\ fr_consecutive_fails' = 0
                 /\ cap' = cap /\ cap_releases' = cap_releases]_vars
    /\ [][(prog = "runtime" /\ fr_pc = "release_fail" /\ fr_pc' # "release_fail") =>
            /\ cap' = cap
            /\ fr_pc' # "finally" =>
                  /\ fr_pc' = "clear_fail"
                  /\ cap_releases' = [cap_releases EXCEPT ![cap] = @ + 1]]_vars
    /\ [][(prog = "runtime" /\ fr_pc = "clear_fail" /\ fr_pc' \notin {"clear_fail", "finally"}) =>
            /\ cap' = NoCap
            /\ fr_consecutive_fails' = 0]_vars

\* C7 witness: capture_loop has released the handle at the threshold and is
\* disconnected with the counter at 0.
C7_Witness ==
    /\ prog = "server" /\ c_pc = "fail_sleep"
    /\ working_cap = NoCap /\ consecutive_fails = 0
    /\ \E h \in Caps : cap_releases[h] = 1 /\ h = caps_made

\* C8 as claimed: a run of N successful reads with one fingerprint has forced
\* the reconnect as soon as N >= RTSP_FREEZE_MAX_FRAMES.
C8_Original ==
    (prog = "runtime" /\ fr_pc = "detect") => same_run < RTSP_FREEZE_MAX_FRAMES

\* C8 amended: freeze_count counts the successful reads whose fingerprint equals
\* the one before, so it is one less than the length of the run; the reconnect
\* is forced by read RTSP_FREEZE_MAX_FRAMES + 1 of the run and not before.
C8_Amended ==
    prog = "runtime" =>
        /\ run_hash = last_hash
        /\ same_run = IF last_hash = None THEN 0 ELSE freeze_count + 1
        /\ fr_pc \in {"release_freeze", "clear_freeze"}
               => same_run = RTSP_FREEZE_MAX_FRAMES + 1
        /\ fr_pc \in {"loop", "read", "detect", "fail_sleep"}
               => same_run <= RTSP_FREEZE_MAX_FRAMES

\* C8 witness: the freeze branch has released the handle after
\* RTSP_FREEZE_MAX_FRAMES + 1 reads with one fingerprint.
C8_Witness ==
    /\ prog = "runtime" /\ fr_pc = "clear_freeze"
    /\ same_run = RTSP_FREEZE_MAX_FRAMES + 1
    /\ cap_releases[cap] = 1

\* C9 as claimed, for the handles of capture_loop: no handle is released twice,
\* a handle the session no longer holds has been released, and once the loop has
\* ended on stop_flag every handle that was opened has been released once.
C9_ReleasedExactlyOnce ==
    prog = "server" =>
        \A h \in 1..caps_made :
            /\ cap_releases[h] <= 1
            /\ (h \notin {working_cap, p_cap} \/ c_pc = "returned")
                   => cap_releases[h] = 1

-----------------------------------------------------------------------------
(* The handlers as readers (under Spec) *)

\* C11: a step of a handler of /health, /snapshot or /video_feed leaves the
\* buffer, the session's handle, the active candidate, the failure counter and
\* the worker's position as they are and releases or opens no handle; the buffer
\* changes only in the worker's publish step, the worker holding frame_lock; and
\* the has_frame a /health handler computes is true exactly when a publish has
\* completed.
C11_HandlersReadOnly ==
    /\ [][h_pc' # h_pc =>
            UNCHANGED <<latest_jpeg, working_cap, working_url, consecutive_fails,
                        caps_made, cap_releases, c_pc, url_i>>]_vars
    /\ [][latest_jpeg' # latest_jpeg =>
            (c_pc = "publish" /\ c_pc' = "loop" /\ frame_lock = Worker
                 /\ h_pc' = h_pc)]_vars
    /\ [][\A h \in Handlers :
            (h_kind[h] = "health" /\ h_pc[h] = "locked" /\ h_pc'[h] = "respond")
                => h_has_frame'[h] = (published # {})]_vars

\* C11 witness: a /health handler has computed has_frame = true and is about to
\* answer while the session is connected with failed reads counted.
C11_Witness ==
    \E h \in Handlers :
        /\ h_kind[h] = "health" /\ h_pc[h] = "respond" /\ h_has_frame[h]
        /\ working_cap # NoCap /\ consecutive_fails > 0

-----------------------------------------------------------------------------
(* Handles and their release (under SpecCapture) *)

\* the position of the capture worker of the program that runs
WorkerPc == IF prog = "server" THEN c_pc ELSE fr_pc

\* the timeout of the probe of the program that runs
ProbeTimeoutSec == IF prog = "server" THEN OPEN_TIMEOUT_SEC ELSE RTSP_OPEN_TIMEOUT_SEC

\* C12: the handle of a running probe and the handle a probe has returned have
\* not been released; a candidate that does not open is released once in the
\* same step, before any read and with no time waited; a probe that gives up
\* does so only at the timeout and releases its handle once; so after a failed
\* probe its handle has been released exactly once.
C12_ProbeHandleOwnership ==
    /\ [](p_cap # NoCap => cap_releases[p_cap] = 0)
    /\ [](PassedServer => cap_releases[working_cap] = 0)
    /\ [](PassedRuntime => cap_releases[cap] = 0)
    /\ []((WorkerPc = "for" /\ Len(tried) >= 1) => cap_releases[caps_made] = 1)
    /\ [][(WorkerPc = "open" /\ caps_made' # caps_made /\ p_cap' = NoCap) =>
            /\ cap_releases' = [cap_releases EXCEPT ![caps_made'] = 1]
            /\ p_good' = 0 /\ p_elapsed' = 0]_vars
    /\ [][(p_cap # NoCap /\ p_cap' = NoCap /\ cap_releases' # cap_releases) =>
            /\ p_elapsed >= ProbeTimeoutSec
            /\ cap_releases' = [cap_releases EXCEPT ![p_cap] = 1]]_vars
    /\ [][(p_cap # NoCap /\ p_cap' = NoCap /\ cap_releases' = cap_releases
              /\ WorkerPc = "probe") =>
            (working_cap' = p_cap \/ cap' = p_cap)]_vars

\* C12 witness: the probe of the first candidate of face_runtime read some
\* frames, ran into the timeout and released its handle once.
C12_Witness ==
    /\ prog = "runtime" /\ fr_pc = "for" /\ url_i = 2
    /\ p_good > 0 /\ cap_releases[1] = 1 /\ ~release_raised

\* C13 as claimed: when the release of the session's handle at the read-failure
\* threshold or at the freeze threshold raises, the worker goes on to forget the
\* handle and reset its counters (capture_loop: handle and candidate cleared,
\* counter 0, then the sleep; face_runtime.main: the statements after release),
\* and no handle is ever released a second time.
C13_ReleaseErrorNotFatal ==
    /\ [][(prog = "server" /\ c_pc = "read" /\ cap_releases' # cap_releases
              /\ release_raised') =>
            (working_cap' = NoCap /\ working_url' = NoUrl
                 /\ consecutive_fails' = 0 /\ c_pc' = "fail_sleep")]_vars
    /\ [][(prog = "runtime" /\ fr_pc \in {"release_fail", "release_freeze"}
              /\ cap_releases' # cap_releases /\ release_raised') =>
            fr_pc' \in {"clear_fail", "clear_freeze"}]_vars
    /\ [](\A h \in Caps : cap_releases[h] <= 1)

\* the handles that were opened and on which release was not called yet
OpenHandles == {h \in 1..caps_made : cap_releases[h] = 0}

\* C14: at most one handle is open at any time; a candidate is opened only
\* while no handle at all is open, and a probe runs only while the session holds
\* no handle.
C14_AtMostOneOpenHandle ==
    /\ Cardinality(OpenHandles) <= 1
    /\ WorkerPc = "open" => OpenHandles = {}
    /\ WorkerPc = "probe" => (OpenHandles = {p_cap} /\ working_cap = NoCap /\ cap = NoCap)

\* C14 witness: capture_loop probes a second handle after the first one was
\* released.
C14_Witness ==
    /\ prog = "server" /\ c_pc = "probe"
    /\ caps_made = 2 /\ p_cap = 2 /\ cap_releases[1] = 1 /\ cap_releases[2] = 0

-----------------------------------------------------------------------------
(* The counters of a session (under SpecCapture) *)

\* C15 as claimed: when a probe of a sweep has just returned a handle, the
\* failure counter is 0, the freeze counter is 0 and no fingerprint is
\* remembered.
C15_CountersResetOnConnect ==
    /\ PassedServer => consecutive_fails = 0
    /\ PassedRuntime =>
          (fr_consecutive_fails = 0 /\ freeze_count = 0 /\ last_hash = None)

\* C16 as claimed, for the handle the session holds when the loop has ended on
\* the shutdown signal (capture_loop has returned on stop_flag, face_runtime.main
\* has run its finally block): that handle has been released.
C16_ReleasedAtLoopEnd ==
    /\ (prog = "server" /\ c_pc = "returned" /\ working_cap # NoCap)
           => cap_releases[working_cap] >= 1
    /\ (prog = "runtime" /\ fr_pc = "stopped" /\ cap # NoCap)
           => cap_releases[cap] >= 1

-----------------------------------------------------------------------------
(* Frames that cannot be used (under SpecCapture) *)

\* C17 as claimed: when the frame capture_loop has read is not turned into a
\* JPEG (the encode step does not lead to the publish), the loop goes back to
\* its test for the next read with the buffer, the handle, the candidate and
\* the failure counter as they were and no release.
C17_EncodeFailureDropsFrame ==
    [][(prog = "server" /\ c_pc = "encode" /\ c_pc' \notin {"encode", "lock"}) =>
          /\ c_pc' = "loop"
          /\ UNCHANGED <<latest_jpeg, working_cap, working_url, consecutive_fails,
                         cap_releases>>]_vars

-----------------------------------------------------------------------------
(* Reconnection (under SpecLive) *)

\* the worker thread runs: a step of its loop that is possible is taken in the
\* end (KeyboardInterrupt and exceptions may happen, they need not)
WorkerRuns == CaptureLoop \/ (Runtime /\ fr_pc' # "finally")

\* the capture workers under the scheduling of their threads
SpecLive == SpecCapture /\ WF_vars(WorkerRuns)

\* the session holds a handle
Connected == working_cap # NoCap \/ cap # NoCap

\* shutdown was asked for or is under way, or the worker thread has died
Shutdown == stop_flag \/ c_pc \in {"returned", "dead"} \/ fr_pc \in {"finally", "stopped"}

\* a sweep is about to take the first candidate of the list
SweepBegins == WorkerPc = "for" /\ url_i = 1 /\ tried = <<>>

\* the model has no handle left for the candidate that is to be opened
HandlesUsedUp == WorkerPc = "open" /\ caps_made = MaxHandles

FrozenReads ==
    (prog = "server" /\ c_pc = "read" /\ c_pc' # "read")
        => (c_pc' = "encode" /\ frame' = Image(1))

\* C19 as claimed: when from some point on every read of the connected
\* capture_loop succeeds with the same content and shutdown does not come, the
\* worker gives up the handle (the session is disconnected again and again
\* rather than connected for ever).
C19_ServerFreezePolicy ==
    (prog = "server" /\ <>[][FrozenReads]_vars /\ [](~Shutdown))
        => []<>(working_cap = NoCap)

\* C20 as claimed: a read of a connected loop that reports success with a
\* zero-size image is handled as a failed read, so no zero-size image reaches
\* the encoder of capture_loop and none is fingerprinted by face_runtime.main.
C20_EmptyFrameIsFailedRead ==
    /\ (prog = "server" /\ c_pc = "encode") => size(frame) > 0
    /\ prog = "runtime" => last_hash # frame_hash(EmptyImage)

-----------------------------------------------------------------------------
(* frame_lock (under SpecFair) *)

\* the threads of hik_mjpeg_server are scheduled and the lock is granted
\* fairly: who holds the lock leaves the with block, and who waits for the lock
\* again and again while it is free gets it in the end
LockFairness ==
    /\ WF_vars(C_Publish)
    /\ SF_vars(C_Acquire)
    /\ \A h \in Handlers : WF_vars(H_Read(h)) /\ SF_vars(H_Acquire(h))

\* a camera that works: the candidate opens, and a read of the probe or of the
\* connected session delivers a frame at once (any frame, also the same one or
\* a zero-size one to the connected session)
C_OpenOk == C_Open /\ c_pc' = "probe" /\ p_elapsed' = 0
C_ProbeReadOk == C_ProbeRead /\ p_good' = p_good + 1 /\ p_elapsed' = p_elapsed
C_ReadOk == C_Read /\ c_pc' = "encode"

\* hik_mjpeg_server with such a camera: the capture thread connects and then
\* reads, encodes and publishes, main may set stop_flag, requests come and go
NextSteady ==
    \/ C_Loop
    \/ C_For
    \/ C_OpenOk
    \/ C_ProbeReadOk
    \/ C_AfterFor
    \/ C_ReadOk
    \/ C_Encode
    \/ C_Acquire
    \/ C_Publish
    \/ SetStop
    \/ \E h \in Handlers : Handler(h)

SpecFair == Init /\ [][NextSteady]_vars /\ LockFairness

\* who holds frame_lock is at the statement inside its with block and can
\* execute it at once
LockDiscipline ==
    /\ (frame_lock = Worker) = (c_pc = "publish")
    /\ \A h \in Handlers : (frame_lock = h) = (h_pc[h] = "locked")
    /\ frame_lock = Worker => ENABLED C_Publish
    /\ \A h \in Handlers : frame_lock = h => ENABLED H_Read(h)

-----------------------------------------------------------------------------
(* Bounds of the counters (under SpecCapture) *)

\* face_runtime.main is between reaching a threshold and the reset that follows
\* the release, or has left its loop
AtFailRelease == fr_pc \in {"release_fail", "clear_fail"}
AtFreezeRelease == fr_pc \in {"release_freeze", "clear_freeze"}
LoopLeft == fr_pc \in {"finally", "stopped"}

\* C22: in capture_loop the failure counter is always at least 0 and below its
\* threshold, and 0 while the session holds no handle; in face_runtime.main the
\* failure counter and the freeze counter are at least 0 and below their
\* thresholds at the loop test and everywhere else in the running loop except
\* between reaching the threshold and the reset after the release, where the
\* counter equals the threshold; they never exceed it; and the failure counter
\* is 0 whenever cap is None.
C22_CounterBounds ==
    /\ prog = "server" =>
          /\ 0 <= consecutive_fails /\ consecutive_fails < MAX_CONSECUTIVE_FAILS
          /\ working_cap = NoCap => consecutive_fails = 0
    /\ prog = "runtime" =>
          /\ 0 <= fr_consecutive_fails
          /\ fr_consecutive_fails <= RTSP_MAX_CONSECUTIVE_FAILS
          /\ 0 <= freeze_count /\ freeze_count <= RTSP_FREEZE_MAX_FRAMES
          /\ ~(AtFailRelease \/ LoopLeft)
                 => fr_consecutive_fails < RTSP_MAX_CONSECUTIVE_FAILS
          /\ ~(AtFreezeRelease \/ LoopLeft)
                 => freeze_count < RTSP_FREEZE_MAX_FRAMES
          /\ AtFailRelease
                 => (fr_consecutive_fails = RTSP_MAX_CONSECUTIVE_FAILS /\ cap # NoCap)
          /\ AtFreezeRelease
                 => (freeze_count = RTSP_FREEZE_MAX_FRAMES /\ cap # NoCap)
          /\ cap = NoCap => fr_consecutive_fails = 0

\* C22 witness: face_runtime.main is at its loop test, connected, with both
\* counters one below their thresholds.
C22_Witness ==
    /\ prog = "runtime" /\ fr_pc = "loop" /\ cap # NoCap
    /\ fr_consecutive_fails = RTSP_MAX_CONSECUTIVE_FAILS - 1
    /\ freeze_count = RTSP_FREEZE_MAX_FRAMES - 1

====
